---- MODULE Spec2Model ----
(***************************************************************************)
(* Model of typedoc's output events (src/lib/output/events.ts) and of the  *)
(* link validator (validateLinks / checkReflection / getBrokenPartLinks).  *)
(*                                                                         *)
(* Four independent pieces of state are modelled:                          *)
(*   - IndexEvent : searchResults / searchFields and removeResult          *)
(*   - PageEvent  : pageHeadings / pageSections and startNewSection        *)
(*   - validator  : a project's reflections and the logger's warnings      *)
(*   - renderer   : the order in which the event channels are triggered    *)
(* Each has its own specification; the variables of the other pieces stay  *)
(* at their idle values.                                                   *)
(*                                                                         *)
(* JavaScript arrays are objects: two fields may hold the same array.      *)
(* Arrays that are shared are therefore modelled as references into a      *)
(* store (arrays, fieldObj), never as values.                              *)
(* Strings that the code inspects are sequences of one-character strings.  *)
(* An optional value is a sequence of length 0 (absent) or 1 (present).    *)
(***************************************************************************)
EXTENDS Integers, Sequences, FiniteSets, TLC

VARIABLES
    \* IndexEvent
    searchResults,   \* sequence of reflections (by name)
    searchFields,    \* sequence of references to field records
    fieldObj,        \* reference -> the record's field names
    lastIndexCall,   \* the last call made on the IndexEvent
    \* PageEvent
    arrays,          \* store of PageHeading[] arrays: reference -> sequence
    pageHeadings,    \* reference of the current heading collector
    pageSections,    \* sequence of [title, headings (a reference)]
    lastPageCall,    \* the last call made on the PageEvent
    \* validateLinks
    project,         \* [id, reflections (the keys of project.reflections)]
    nodes,           \* id -> the reflection object with that id
    warnings,        \* what logger.warn received, in order
    visited,         \* ids of the reflections checkReflection was called on
    validated,       \* whether validateLinks has run
    \* renderer
    pages,           \* RendererEvent.pages
    trace,           \* listener call trace
    renderState,     \* position of the renderer in the run
    pageIdx          \* pages rendered so far

indexVars  == <<searchResults, searchFields, fieldObj, lastIndexCall>>
pageVars   == <<arrays, pageHeadings, pageSections, lastPageCall>>
linkVars   == <<project, nodes, warnings, visited, validated>>
renderVars == <<pages, trace, renderState, pageIdx>>
vars == <<indexVars, pageVars, linkVars, renderVars>>

Min(a, b) == IF a < b THEN a ELSE b
Max(a, b) == IF a > b THEN a ELSE b

\* The sequences over S of length at most n.
SeqsUpTo(S, n) == UNION {[1..k -> S] : k \in 0..n}

Injective(s) == \A i, j \in 1..Len(s) : s[i] = s[j] => i = j

(***************************************************************************)
(* IndexEvent                                                              *)
(***************************************************************************)
MaxResults == 3

Results == 1..MaxResults
FieldNames == {"boost"}

\* Array.prototype.splice(start, deleteCount) without inserted items, as
\* ECMAScript defines it: a negative start counts from the end, the start is
\* clamped to [0, length] and the delete count to what is left.
Splice(arr, start, deleteCount) ==
    LET len == Len(arr)
        actualStart == IF start < 0 THEN Max(len + start, 0) ELSE Min(start, len)
        actualDeleteCount == Min(Max(deleteCount, 0), len - actualStart)
    IN  [i \in 1..(len - actualDeleteCount) |->
            IF i <= actualStart THEN arr[i] ELSE arr[i + actualDeleteCount]]

\* new IndexEvent(searchResults): one fresh empty record per result.
IndexEventNew(results) ==
    /\ searchResults = results
    /\ searchFields = [i \in 1..Len(results) |-> i]
    /\ fieldObj = [r \in 1..Len(results) |-> {}]
    /\ lastIndexCall = [op |-> "new", index |-> 0, n |-> Len(results)]

InitIndexEvent ==
    \E results \in {s \in SeqsUpTo(Results, MaxResults) : Injective(s)} :
        IndexEventNew(results)

IdleIndex ==
    /\ searchResults = <<>>
    /\ searchFields = <<>>
    /\ fieldObj = <<>>
    /\ lastIndexCall = [op |-> "none", index |-> 0, n |-> 0]

\* A plausible slip: only the results are spliced.
RemoveResultOneArray(index) ==
    /\ searchResults' = Splice(searchResults, index, 1)
    /\ searchFields' = searchFields
    /\ fieldObj' = fieldObj
    /\ lastIndexCall' = [op |-> "removeResult", index |-> index, n |-> Len(searchResults)]
    /\ UNCHANGED <<pageVars, linkVars, renderVars>>

\* A plausible slip: the fields are spliced one position late.
RemoveResultOffByOne(index) ==
    /\ searchResults' = Splice(searchResults, index, 1)
    /\ searchFields' = Splice(searchFields, IF index + 1 < Len(searchFields) THEN index + 1 ELSE index, 1)
    /\ fieldObj' = fieldObj
    /\ lastIndexCall' = [op |-> "removeResult", index |-> index, n |-> Len(searchResults)]
    /\ UNCHANGED <<pageVars, linkVars, renderVars>>

\* IndexEvent.removeResult(index)
RemoveResult(index) ==
    /\ searchResults' = Splice(searchResults, index, 1)
    /\ searchFields' = Splice(searchFields, index, 1)
    /\ fieldObj' = fieldObj
    /\ lastIndexCall' = [op |-> "removeResult", index |-> index, n |-> Len(searchResults)]
    /\ UNCHANGED <<pageVars, linkVars, renderVars>>

\* A listener sets a custom search field on the record of entry i (1-based):
\* event.searchFields[i - 1][name] = ...
SetSearchField(i, name) ==
    /\ i \in 1..Len(searchFields)
    /\ name \notin fieldObj[searchFields[i]]
    /\ fieldObj' = [fieldObj EXCEPT ![searchFields[i]] = @ \cup {name}]
    /\ lastIndexCall' = [op |-> "setField", index |-> i - 1, n |-> Len(searchResults)]
    /\ UNCHANGED <<searchResults, searchFields>>
    /\ UNCHANGED <<pageVars, linkVars, renderVars>>

RemoveAny == \E index \in (0 - MaxResults - 1)..(MaxResults + 1) : RemoveResult(index)
SetAnyField == \E i \in 1..MaxResults, name \in FieldNames : SetSearchField(i, name)

(***************************************************************************)
(* PageEvent                                                               *)
(***************************************************************************)
MaxSections == 3
MaxHeadings == 3

Titles == {"", "A", "B"}
PageHeadings == {[link |-> "#a", text |-> "a"], [link |-> "#b", text |-> "b"]}

\* Field initialisers of PageEvent: pageHeadings = [] and one section, with
\* the empty title, whose headings is that same array.
PageEventNew ==
    /\ arrays = << <<>> >>
    /\ pageHeadings = 1
    /\ pageSections = << [title |-> "", headings |-> 1] >>
    /\ lastPageCall = [op |-> "new", title |-> "", heading |-> <<>>]

IdlePage ==
    /\ arrays = <<>>
    /\ pageHeadings = 0
    /\ pageSections = <<>>
    /\ lastPageCall = [op |-> "none", title |-> "", heading |-> <<>>]

TotalHeadings == LET RECURSIVE Sum(_)
                     Sum(k) == IF k = 0 THEN 0 ELSE Len(arrays[k]) + Sum(k - 1)
                 IN  Sum(Len(arrays))

\* A plausible slip: the section gets an array of its own (headings: []),
\* not the one pageHeadings now refers to.
StartNewSectionOwnArray(title) ==
    /\ Len(pageSections) < MaxSections
    /\ arrays' = arrays \o << <<>>, <<>> >>
    /\ pageHeadings' = Len(arrays) + 1
    /\ pageSections' = Append(pageSections, [title |-> title, headings |-> Len(arrays) + 2])
    /\ lastPageCall' = [op |-> "startNewSection", title |-> title, heading |-> <<>>]
    /\ UNCHANGED <<indexVars, linkVars, renderVars>>

\* A plausible slip: the collector is emptied in place
\* (this.pageHeadings.length = 0) instead of being replaced by a new array.
StartNewSectionInPlace(title) ==
    /\ Len(pageSections) < MaxSections
    /\ arrays' = [arrays EXCEPT ![pageHeadings] = <<>>]
    /\ pageHeadings' = pageHeadings
    /\ pageSections' = Append(pageSections, [title |-> title, headings |-> pageHeadings])
    /\ lastPageCall' = [op |-> "startNewSection", title |-> title, heading |-> <<>>]
    /\ UNCHANGED <<indexVars, linkVars, renderVars>>

\* PageEvent.startNewSection(title)
StartNewSection(title) ==
    /\ Len(pageSections) < MaxSections
    /\ arrays' = Append(arrays, <<>>)
    /\ pageHeadings' = Len(arrays) + 1
    /\ pageSections' = Append(pageSections, [title |-> title, headings |-> pageHeadings'])
    /\ lastPageCall' = [op |-> "startNewSection", title |-> title, heading |-> <<>>]
    /\ UNCHANGED <<indexVars, linkVars, renderVars>>

\* Content generation records a heading: page.pageHeadings.push(heading)
PushHeading(heading) ==
    /\ TotalHeadings < MaxHeadings
    /\ arrays' = [arrays EXCEPT ![pageHeadings] = Append(@, heading)]
    /\ lastPageCall' = [op |-> "push", title |-> "", heading |-> <<heading>>]
    /\ UNCHANGED <<pageHeadings, pageSections>>
    /\ UNCHANGED <<indexVars, linkVars, renderVars>>

StartAnySection == \E title \in Titles : StartNewSection(title)
PushAnyHeading == \E heading \in PageHeadings : PushHeading(heading)

(***************************************************************************)
(* Link validator: strings                                                 *)
(***************************************************************************)
WhiteSpace == {" ", "\t", "\n"}

\* String.prototype.trim()
Trim(s) ==
    LET keep == {i \in 1..Len(s) : s[i] \notin WhiteSpace}
    IN  IF keep = {} THEN <<>>
        ELSE LET first == CHOOSE i \in keep : \A j \in keep : i <= j
                 last == CHOOSE i \in keep : \A j \in keep : j <= i
             IN  SubSeq(s, first, last)

\* String.prototype.startsWith(c), c one character
StartsWith(s, c) == Len(s) >= 1 /\ s[1] = c

\* String.prototype.includes(c), c one character
Includes(s, c) == \E i \in 1..Len(s) : s[i] = c

\* A plausible slip: the regular expression carries the g flag and every
\* match is replaced.
ReplaceAll(s, class, by) == [i \in 1..Len(s) |-> IF s[i] \in class THEN by ELSE s[i]]

\* String.prototype.replace(/[class]/, by): a regular expression without the
\* g flag replaces the first match only.
ReplaceFirst(s, class, by) ==
    LET hits == {i \in 1..Len(s) : s[i] \in class}
    IN  IF hits = {} THEN s
        ELSE LET first == CHOOSE i \in hits : \A j \in hits : i <= j
             IN  [s EXCEPT ![first] = by]

\* The keys of an object whose keys are integers, in for-in order: ascending.
SortedKeys(S) ==
    LET RECURSIVE Sort(_)
        Sort(T) == IF T = {} THEN <<>>
                   ELSE LET m == CHOOSE x \in T : \A y \in T : x <= y
                        IN  <<m>> \o Sort(T \ {m})
    IN  Sort(S)

\* The concatenation of a sequence of sequences, in order: what flatMap and
\* push(...spread) in a loop build from the sequences they are given.
Flatten(seqs) ==
    LET RECURSIVE Flat(_)
        Flat(k) == IF k > Len(seqs) THEN <<>> ELSE seqs[k] \o Flat(k + 1)
    IN  Flat(1)

\* Array.prototype.map on a sequence
Map(seq, f(_)) == [i \in 1..Len(seq) |-> f(seq[i])]

(***************************************************************************)
(* Link validator: comment display parts                                   *)
(***************************************************************************)
linkTags == {"@link", "@linkcode", "@linkplain"}

Undefined == [type |-> "undefined", str |-> <<>>]
Absent == <<>>
Some(x) == <<x>>

\* JavaScript truthiness of a part's target: undefined and the empty string are
\* falsy, every object and every other string is truthy.
Truthy(target) ==
    /\ target.type # "undefined"
    /\ target.type = "string" => target.str # <<>>

\* A plausible slip: a target that is an unresolved ReflectionSymbolId counts
\* as resolved.
IsBrokenPartTargetOnly(part) ==
    /\ part.kind = "inline-tag"
    /\ part.tag \in linkTags
    /\ ~Truthy(part.target)

\* The condition of getBrokenPartLinks' loop body.
IsBrokenPart(part) ==
    /\ part.kind = "inline-tag"
    /\ part.tag \in linkTags
    /\ (~Truthy(part.target) \/ part.target.type = "ReflectionSymbolId")

\* getBrokenPartLinks(parts): the trimmed texts of the broken parts, in order.
getBrokenPartLinks(parts) ==
    LET broken == SelectSeq(parts, IsBrokenPart)
    IN  [i \in 1..Len(broken) |-> Trim(broken[i].text)]

BlockTagLinks(tag) == getBrokenPartLinks(tag.content)

\* getBrokenLinks(comment): comment is optional.
getBrokenLinks(comment) ==
    IF comment = Absent THEN <<>>
    ELSE getBrokenPartLinks(comment[1].summary) \o Flatten(Map(comment[1].blockTags, BlockTagLinks))

(***************************************************************************)
(* Link validator: messages                                                *)
(***************************************************************************)
\* The i18n message a call formats: the catalog key and its arguments.
Message(key, broken, name, suggestion) ==
    [template |-> key, text |-> broken, name |-> name, suggestion |-> suggestion]

\* "@" starts the link and no module source indicator "!" is in it (#2360).
MayBePackageLink(broken) == StartsWith(broken, "@") /\ ~Includes(broken, "!")

\* A plausible slip: every separator is replaced, not the first only.
SuggestionAll(broken) == ReplaceAll(broken, {".", "#", "~"}, "!")

\* broken.replace(/[.#~]/, "!")
Suggestion(broken) == ReplaceFirst(broken, {".", "#", "~"}, "!")

\* The if/else of each of checkReflection's four loops, given the two
\* catalog keys the loop names.
Warn(broken, name, keyMayHaveMeant, keyPlain) ==
    IF MayBePackageLink(broken)
    THEN Message(keyMayHaveMeant, broken, name, Some(Suggestion(broken)))
    ELSE Message(keyPlain, broken, name, Absent)

WarnAll(links, name, keyMayHaveMeant, keyPlain) ==
    [i \in 1..Len(links) |-> Warn(links[i], name, keyMayHaveMeant, keyPlain)]

\* A plausible slip: document links are reported with the comment messages.
DocumentWarningsAsComment(r) ==
    IF r.variant = "Document"
    THEN WarnAll(getBrokenPartLinks(r.content), r.name,
                 "failed_to_resolve_link_to_0_in_comment_for_1_may_have_meant_2",
                 "failed_to_resolve_link_to_0_in_comment_for_1")
    ELSE <<>>

ReadmeWarnings(r) ==
    IF r.variant \in {"Project", "Declaration"}
    THEN WarnAll(getBrokenPartLinks(r.readme), r.name,
                 "failed_to_resolve_link_to_0_in_readme_for_1_may_have_meant_2",
                 "failed_to_resolve_link_to_0_in_readme_for_1")
    ELSE <<>>

DocumentWarnings(r) ==
    IF r.variant = "Document"
    THEN WarnAll(getBrokenPartLinks(r.content), r.name,
                 "failed_to_resolve_link_to_0_in_document_1_may_have_meant_2",
                 "failed_to_resolve_link_to_0_in_document_1")
    ELSE <<>>

CommentWarnings(r) ==
    WarnAll(getBrokenLinks(r.comment), r.name,
            "failed_to_resolve_link_to_0_in_comment_for_1_may_have_meant_2",
            "failed_to_resolve_link_to_0_in_comment_for_1")

\* The guard of checkReflection's last block.
HasElementSummaries(r) ==
    /\ r.variant = "Declaration"
    /\ r.kind = "TypeAlias"
    /\ r.type # Absent
    /\ r.type[1].type = "union"
    /\ r.type[1].elementSummaries # Absent

\* A plausible slip: the summaries of union members are not looked at.
ElementSummaryWarningsSkipped(r) == <<>>

ElementSummaryWarnings(r) ==
    IF HasElementSummaries(r)
    THEN WarnAll(Flatten(Map(r.type[1].elementSummaries[1], getBrokenPartLinks)), r.name,
                 "failed_to_resolve_link_to_0_in_comment_for_1_may_have_meant_2",
                 "failed_to_resolve_link_to_0_in_comment_for_1")
    ELSE <<>>

\* checkReflection(reflection, logger): the warnings it logs, in order.
checkReflection(r) ==
    ReadmeWarnings(r) \o DocumentWarnings(r) \o CommentWarnings(r) \o ElementSummaryWarnings(r)

\* A plausible slip: the project is checked whether or not it is a key of
\* its own reflections.
ReflectionsToCheckRootAlways == SortedKeys(project.reflections) \o <<project.id>>

\* validateLinks: the reflections checkReflection is called on, in order.
ReflectionsToCheck ==
    SortedKeys(project.reflections) \o
        (IF project.id \notin project.reflections THEN <<project.id>> ELSE <<>>)

CheckNode(id) == checkReflection(nodes[id])

\* validateLinks(project, logger)
validateLinks ==
    /\ ~validated
    /\ visited' = visited \o ReflectionsToCheck
    /\ warnings' = warnings \o Flatten(Map(ReflectionsToCheck, CheckNode))
    /\ validated' = TRUE
    /\ UNCHANGED <<project, nodes>>
    /\ UNCHANGED <<indexVars, pageVars, renderVars>>

IdleLinks ==
    /\ project = [id |-> 0, reflections |-> {}]
    /\ nodes = <<>>
    /\ warnings = <<>>
    /\ visited = <<>>
    /\ validated = FALSE

(***************************************************************************)
(* Link validator: the projects validateLinks is run on                    *)
(***************************************************************************)
MaxId == 2
MaxLen == 3
MaxParts == 2

Variants == {"Project", "Declaration", "Document", "Signature"}
ChildVariants == Variants \ {"Project"}
Kinds == {"TypeAlias", "Property"}
Locations == {"readme", "content", "summary", "blockTag", "elementSummary"}

\* Reflection.getFriendlyFullName() is derived from the reflection's names;
\* here every reflection has a name of its own.
FriendlyFullName(id) == <<"refl", id>>

\* A reflection carrying the parts at each of the places locs names.
\* otherType is its type when it has no union member summaries.
Reflection(id, variant, kind, locs, parts, otherType) ==
    [id |-> id,
     name |-> FriendlyFullName(id),
     variant |-> variant,
     kind |-> kind,
     readme |-> IF "readme" \in locs THEN parts ELSE <<>>,
     content |-> IF "content" \in locs THEN parts ELSE <<>>,
     comment |-> IF locs \cap {"summary", "blockTag"} = {} THEN Absent
                 ELSE Some([summary |-> IF "summary" \in locs THEN parts ELSE <<>>,
                            blockTags |-> IF "blockTag" \in locs
                                          THEN << [tag |-> "@remarks", content |-> parts] >>
                                          ELSE <<>>]),
     type |-> IF "elementSummary" \in locs
              THEN Some([type |-> "union", elementSummaries |-> Some(<<parts>>)])
              ELSE otherType]

OtherTypes == {Absent,
               Some([type |-> "reference", elementSummaries |-> Absent]),
               Some([type |-> "union", elementSummaries |-> Absent])}

InlineTag(tag, text, target) == [kind |-> "inline-tag", tag |-> tag, text |-> text, target |-> target]
PlainPart(kind, text) == [kind |-> kind, tag |-> "", text |-> text, target |-> Undefined]

Targets == {Undefined,
            [type |-> "string", str |-> <<>>],
            [type |-> "string", str |-> <<"h", "t", "t", "p">>],
            [type |-> "Reflection", str |-> <<>>],
            [type |-> "ReflectionSymbolId", str |-> <<>>]}
BrokenTargets == {Undefined, [type |-> "ReflectionSymbolId", str |-> <<>>]}
InlineTags == linkTags \cup {"@label"}

LinkedProject(id, keys, objs) ==
    /\ project = [id |-> id, reflections |-> keys]
    /\ nodes = objs
    /\ warnings = <<>>
    /\ visited = <<>>
    /\ validated = FALSE

\* Traversal: any set of ids as the keys of project.reflections, the
\* project's own id among them or not; every reflection has one broken link
\* in its comment.
TraverseText == <<"x">>
InitTraverse ==
    \E id \in 0..MaxId, keys \in SUBSET (0..MaxId) :
    \E variantOf \in [(keys \cup {id}) \ {id} -> ChildVariants] :
        LinkedProject(id, keys,
            [i \in keys \cup {id} |->
                Reflection(i, IF i = id THEN "Project" ELSE variantOf[i], "Property",
                           {"summary"}, <<InlineTag("@link", TraverseText, Undefined)>>, Absent)])

\* Classification: one broken link, with any short text, at any place of
\* any kind of reflection.
Alphabet == {"@", ".", "#", "~", "!", "a", " "}
ExampleTexts == {<<"@", "s", "c", "o", "p", "e", "/", "p", "k", "g", ".", "T", "h", "i", "n", "g">>,
                 <<"F", "o", "o", ".", "B", "a", "r">>}
Texts == SeqsUpTo(Alphabet, MaxLen) \cup ExampleTexts
InitClassify ==
    \E text \in Texts, loc \in Locations, target \in BrokenTargets :
        LinkedProject(0, {1},
            [i \in {0, 1} |->
                IF i = 0
                THEN Reflection(0, "Project", "Property", {}, <<>>, Absent)
                ELSE Reflection(1, IF loc = "content" THEN "Document" ELSE "Declaration",
                                "TypeAlias", {loc}, <<InlineTag("@link", text, target)>>, Absent)])

\* Display parts: any short list of parts of any kind, tag and target, at
\* any place of a reflection that is checked there.
PartText == <<" ", "a", ".", "b">>
Parts == {PlainPart(k, PartText) : k \in {"text", "code"}}
            \cup {InlineTag(tag, PartText, target) : tag \in InlineTags, target \in Targets}
InitParts ==
    \E parts \in SeqsUpTo(Parts, MaxParts), loc \in Locations :
        LinkedProject(0, {0, 1},
            [i \in {0, 1} |->
                IF i = 0
                THEN Reflection(0, "Project", "Property", {}, <<>>, Absent)
                ELSE Reflection(1, IF loc = "content" THEN "Document" ELSE "Declaration",
                                "TypeAlias", {loc}, parts, Absent)])

\* Sources: the same broken link at any places of reflections of any kind.
SourceTexts == {<<"@", "a", ".", "b">>, <<"a", ".", "b">>}
InitSources ==
    \E text \in SourceTexts, keys \in {{1, 2}, {0, 1, 2}}, otherType \in OtherTypes :
    \E rootLoc \in {{}, {"readme"}, {"summary"}} :
    \E variant1 \in ChildVariants, kind1 \in Kinds, locs1 \in SUBSET Locations :
    \E variant2 \in ChildVariants, locs2 \in {{"readme"}, {"content"}, {"summary"}} :
        LET parts == <<InlineTag("@link", text, Undefined)>>
        IN  LinkedProject(0, keys,
                [i \in {0, 1, 2} |->
                    CASE i = 0 -> Reflection(0, "Project", "Property", rootLoc, parts, Absent)
                      [] i = 1 -> Reflection(1, variant1, kind1, locs1, parts, otherType)
                      [] i = 2 -> Reflection(2, variant2, "Property", locs2, parts, Absent)])

(***************************************************************************)
(* Renderer: the order of the event channels                               *)
(***************************************************************************)
MaxPages == 3

RendererEvent_BEGIN == "beginRender"
RendererEvent_END == "endRender"
PageEvent_BEGIN == "beginPage"
PageEvent_END == "endPage"
IndexEvent_PREPARE_INDEX == "prepareIndex"

PageUrls == {"index.html", "modules.html", "classes/A.html"}

Triggered(event, page) == [event |-> event, page |-> page]

InitRender ==
    \E planned \in SeqsUpTo(PageUrls, MaxPages) :
        /\ pages = planned
        /\ trace = <<>>
        /\ renderState = "notStarted"
        /\ pageIdx = 0

IdleRender ==
    /\ pages = <<>>
    /\ trace = <<>>
    /\ renderState = "idle"
    /\ pageIdx = 0

BeginRender ==
    /\ renderState = "notStarted"
    /\ trace' = Append(trace, Triggered(RendererEvent_BEGIN, Absent))
    /\ renderState' = "rendering"
    /\ UNCHANGED <<pages, pageIdx>>
    /\ UNCHANGED <<indexVars, pageVars, linkVars>>

BeginPage ==
    /\ renderState = "rendering"
    /\ pageIdx < Len(pages)
    /\ trace' = Append(trace, Triggered(PageEvent_BEGIN, Some(pages[pageIdx + 1])))
    /\ renderState' = "page"
    /\ UNCHANGED <<pages, pageIdx>>
    /\ UNCHANGED <<indexVars, pageVars, linkVars>>

EndPage ==
    /\ renderState = "page"
    /\ trace' = Append(trace, Triggered(PageEvent_END, Some(pages[pageIdx + 1])))
    /\ pageIdx' = pageIdx + 1
    /\ renderState' = "rendering"
    /\ UNCHANGED pages
    /\ UNCHANGED <<indexVars, pageVars, linkVars>>

\* A slip excluded by the ordering rule: the index is prepared while pages
\* are still to be rendered.
PrepareIndexEarly ==
    /\ renderState = "rendering"
    /\ trace' = Append(trace, Triggered(IndexEvent_PREPARE_INDEX, Absent))
    /\ renderState' = "indexPrepared"
    /\ UNCHANGED <<pages, pageIdx>>
    /\ UNCHANGED <<indexVars, pageVars, linkVars>>

PrepareIndex ==
    /\ renderState = "rendering"
    /\ pageIdx = Len(pages)
    /\ trace' = Append(trace, Triggered(IndexEvent_PREPARE_INDEX, Absent))
    /\ renderState' = "indexPrepared"
    /\ UNCHANGED <<pages, pageIdx>>
    /\ UNCHANGED <<indexVars, pageVars, linkVars>>

EndRender ==
    /\ renderState = "indexPrepared"
    /\ trace' = Append(trace, Triggered(RendererEvent_END, Absent))
    /\ renderState' = "done"
    /\ UNCHANGED <<pages, pageIdx>>
    /\ UNCHANGED <<indexVars, pageVars, linkVars>>

(***************************************************************************)
(* Specifications                                                          *)
(***************************************************************************)
InitIndex == InitIndexEvent /\ IdlePage /\ IdleLinks /\ IdleRender
NextIndex == RemoveAny \/ SetAnyField
SpecIndex == InitIndex /\ [][NextIndex]_vars

InitPage == IdleIndex /\ PageEventNew /\ IdleLinks /\ IdleRender
NextPage == StartAnySection \/ PushAnyHeading
SpecPage == InitPage /\ [][NextPage]_vars

NextLinks == validateLinks
InitTraverseRun == IdleIndex /\ IdlePage /\ InitTraverse /\ IdleRender
SpecTraverse == InitTraverseRun /\ [][NextLinks]_vars
InitClassifyRun == IdleIndex /\ IdlePage /\ InitClassify /\ IdleRender
SpecClassify == InitClassifyRun /\ [][NextLinks]_vars
InitPartsRun == IdleIndex /\ IdlePage /\ InitParts /\ IdleRender
SpecParts == InitPartsRun /\ [][NextLinks]_vars
InitSourcesRun == IdleIndex /\ IdlePage /\ InitSources /\ IdleRender
SpecSources == InitSourcesRun /\ [][NextLinks]_vars

InitRun == IdleIndex /\ IdlePage /\ IdleLinks /\ InitRender
NextRender == BeginRender \/ BeginPage \/ EndPage \/ PrepareIndex \/ EndRender
SpecRender == InitRun /\ [][NextRender]_vars

(***************************************************************************)
(* Properties of IndexEvent                                                *)
(***************************************************************************)
\* C1: searchFields has one entry per search result in every state reached by
\* removeResult calls with any index (valid, negative or past the end), and
\* right after construction every entry is an empty record of its own.
C1_FieldsAligned ==
    /\ Len(searchFields) = Len(searchResults)
    /\ lastIndexCall.op = "new" =>
          /\ Injective(searchFields)
          /\ \A i \in 1..Len(searchFields) : fieldObj[searchFields[i]] = {}

\* A negative index has removed the last but one of three results.
C1_Witness ==
    /\ lastIndexCall.op = "removeResult"
    /\ lastIndexCall.index = 0 - 2
    /\ lastIndexCall.n = 3
    /\ Len(searchResults) = 2
    /\ Len(searchFields) = 2

\* C8: removeResult(k) with 0 <= k < n leaves both arrays with n - 1 entries;
\* the entries before position k stay where they were and those after it move
\* down by one, in both arrays alike, and no field record is changed.
C8_IndexPairing ==
    [][LET k == lastIndexCall'.index
           n == Len(searchResults)
       IN  (lastIndexCall'.op = "removeResult" /\ k \in 0..(n - 1)) =>
              /\ Len(searchResults') = n - 1
              /\ Len(searchFields') = n - 1
              /\ \A i \in 1..(n - 1) :
                    /\ searchResults'[i] = searchResults[IF i <= k THEN i ELSE i + 1]
                    /\ searchFields'[i] = searchFields[IF i <= k THEN i ELSE i + 1]
              /\ fieldObj' = fieldObj
      ]_vars

\* The first of three results was removed; the result that is now first has
\* the custom field that was set on it before the removal.
C8_Witness ==
    /\ lastIndexCall.op = "removeResult"
    /\ lastIndexCall.index = 0
    /\ lastIndexCall.n = 3
    /\ Len(searchResults) = 2
    /\ searchFields = <<2, 3>>
    /\ fieldObj[2] # {}
    /\ fieldObj[1] = {}

(***************************************************************************)
(* Properties of PageEvent                                                 *)
(***************************************************************************)
\* C2: pageSections is never empty, its first section has the empty title,
\* and pageHeadings is the very array the last section holds as headings.
C2_CollectorIsLastSection ==
    /\ Len(pageSections) >= 1
    /\ pageSections[1].title = ""
    /\ pageSections[Len(pageSections)].headings = pageHeadings

\* A heading was pushed after two sections had been started.
C2_Witness ==
    /\ lastPageCall.op = "push"
    /\ Len(pageSections) = 3
    /\ arrays[pageHeadings] # <<>>

SectionHeadings(i) == arrays[pageSections[i].headings]

\* C9: startNewSection(title) appends one section with that title and no
\* headings and leaves the titles and headings of the sections before it as
\* they were; a heading recorded later is appended to the last section and
\* leaves every other section as it was.
C9_SectionFrame ==
    [][LET n == Len(pageSections)
       IN  /\ lastPageCall'.op = "startNewSection" =>
                /\ Len(pageSections') = n + 1
                /\ pageSections'[n + 1].title = lastPageCall'.title
                /\ arrays'[pageSections'[n + 1].headings] = <<>>
                /\ \A i \in 1..n :
                      /\ pageSections'[i].title = pageSections[i].title
                      /\ arrays'[pageSections'[i].headings] = SectionHeadings(i)
           /\ lastPageCall'.op = "push" =>
                /\ Len(pageSections') = n
                /\ \A i \in 1..n : pageSections'[i].title = pageSections[i].title
                /\ \A i \in 1..(n - 1) :
                      arrays'[pageSections'[i].headings] = SectionHeadings(i)
                /\ arrays'[pageSections'[n].headings] =
                      SectionHeadings(n) \o lastPageCall'.heading
      ]_vars

\* After one startNewSection("B") a heading was recorded: it is in the second
\* section, and the first keeps the heading it had before the call.
C9_Witness ==
    /\ lastPageCall.op = "push"
    /\ Len(pageSections) = 2
    /\ pageSections[2].title = "B"
    /\ Len(SectionHeadings(1)) = 1
    /\ Len(SectionHeadings(2)) = 1

(***************************************************************************)
(* Properties of the link validator                                        *)
(***************************************************************************)
ReadmeTemplates == {"failed_to_resolve_link_to_0_in_readme_for_1_may_have_meant_2",
                    "failed_to_resolve_link_to_0_in_readme_for_1"}
DocumentTemplates == {"failed_to_resolve_link_to_0_in_document_1_may_have_meant_2",
                      "failed_to_resolve_link_to_0_in_document_1"}
CommentTemplates == {"failed_to_resolve_link_to_0_in_comment_for_1_may_have_meant_2",
                     "failed_to_resolve_link_to_0_in_comment_for_1"}
MayHaveMeantTemplates == {"failed_to_resolve_link_to_0_in_readme_for_1_may_have_meant_2",
                          "failed_to_resolve_link_to_0_in_document_1_may_have_meant_2",
                          "failed_to_resolve_link_to_0_in_comment_for_1_may_have_meant_2"}
UsedTemplates == ReadmeTemplates \cup DocumentTemplates \cup CommentTemplates

\* The templates of the warnings logged.
SeenTemplates == {warnings[i].template : i \in 1..Len(warnings)}

Occurrences(seq, x) == Cardinality({i \in 1..Len(seq) : seq[i] = x})

\* The warnings logged for reflection r with a template of the set.
WarningsFor(r, templates) ==
    Cardinality({i \in 1..Len(warnings) :
                    warnings[i].name = r.name /\ warnings[i].template \in templates})

\* C3: validateLinks runs the check on every reflection of
\* project.reflections and on the project exactly once each, whether or not
\* the project's id is a key of project.reflections.
C3_EachCheckedOnce ==
    validated =>
        /\ \A id \in project.reflections \cup {project.id} :
              /\ Occurrences(visited, id) = 1
              /\ WarningsFor(nodes[id], UsedTemplates) = 1
        /\ \A i \in 1..Len(visited) : visited[i] \in project.reflections \cup {project.id}

\* The project's id is not a key of its reflections, which has two keys.
C3_Witness ==
    /\ validated
    /\ project.id \notin project.reflections
    /\ Cardinality(project.reflections) = 2
    /\ Len(visited) = 3

\* Every display part reflection r carries, wherever it is.
AllParts(r) ==
    r.readme \o r.content
    \o (IF r.comment = Absent THEN <<>>
        ELSE r.comment[1].summary \o Flatten(Map(r.comment[1].blockTags, LAMBDA t : t.content)))
    \o (IF r.type = Absent \/ r.type[1].elementSummaries = Absent THEN <<>>
        ELSE Flatten(r.type[1].elementSummaries[1]))

\* t is s without its leading and trailing white space.
IsTrimOf(t, s) ==
    \E a \in 0..Len(s), b \in 0..Len(s) :
        /\ a + Len(t) + b = Len(s)
        /\ \A i \in 1..Len(t) : t[i] = s[a + i]
        /\ \A i \in 1..a : s[i] \in WhiteSpace
        /\ \A i \in (Len(s) - b + 1)..Len(s) : s[i] \in WhiteSpace
        /\ Len(t) > 0 => (t[1] \notin WhiteSpace /\ t[Len(t)] \notin WhiteSpace)

\* u is t with only its first character among . # ~ replaced by !
IsFirstSeparatorReplaced(u, t) ==
    LET seps == {i \in 1..Len(t) : t[i] \in {".", "#", "~"}}
    IN  /\ Len(u) = Len(t)
        /\ \A i \in 1..Len(t) :
              IF i \in seps /\ \A j \in seps : i <= j THEN u[i] = "!" ELSE u[i] = t[i]

\* C4: the warning for a broken link carries the trimmed text t of the part;
\* when t starts with @ and holds no !, it is the with-suggestion warning and
\* suggests t with only its first . # or ~ replaced by !, otherwise it is the
\* plain warning with no suggestion.
C4_Classification ==
    validated =>
        /\ Len(warnings) = 1
        /\ LET w == warnings[1]
               t == w.text
           IN  /\ IsTrimOf(t, AllParts(nodes[1])[1].text)
               /\ IF Len(t) > 0 /\ t[1] = "@" /\ \A i \in 1..Len(t) : t[i] # "!"
                  THEN /\ w.template \in MayHaveMeantTemplates
                       /\ w.suggestion # Absent
                       /\ IsFirstSeparatorReplaced(w.suggestion[1], t)
                  ELSE /\ w.template \in UsedTemplates \ MayHaveMeantTemplates
                       /\ w.suggestion = Absent

\* A link with two separators after @ was reported: only the first became !
C4_Witness ==
    /\ validated
    /\ Len(warnings) = 1
    /\ warnings[1].text = <<"@", ".", "#">>
    /\ warnings[1].suggestion = << <<"@", "!", "#">> >>

\* The documented example: @scope/pkg.Thing is reported with @scope/pkg!Thing.
C4_ExampleReached ==
    /\ validated
    /\ Len(warnings) = 1
    /\ warnings[1].text = <<"@", "s", "c", "o", "p", "e", "/", "p", "k", "g", ".", "T", "h", "i", "n", "g">>
    /\ warnings[1].suggestion = << <<"@", "s", "c", "o", "p", "e", "/", "p", "k", "g", "!", "T", "h", "i", "n", "g">> >>

\* The documented example: Foo.Bar is reported with the plain warning.
C4_PlainExampleReached ==
    /\ validated
    /\ Len(warnings) = 1
    /\ warnings[1].text = <<"F", "o", "o", ".", "B", "a", "r">>
    /\ warnings[1].suggestion = Absent
    /\ warnings[1].template = "failed_to_resolve_link_to_0_in_readme_for_1"

IsLinkPart(part) == part.kind = "inline-tag" /\ part.tag \in {"@link", "@linkcode", "@linkplain"}

\* Broken as the claim has it: the target is absent or an unresolved symbol id.
BrokenAsClaimed(part) ==
    IsLinkPart(part) /\ part.target.type \in {"undefined", "ReflectionSymbolId"}

\* Broken as the code has it: the empty string is no target either.
BrokenAsAmended(part) ==
    IsLinkPart(part) /\ (part.target.type \in {"undefined", "ReflectionSymbolId"}
                            \/ part.target = [type |-> "string", str |-> <<>>])

BrokenIn(parts) == Cardinality({i \in 1..Len(parts) : BrokenAsAmended(parts[i])})

\* C5 as claimed: one warning per link-tag part whose target is absent or an
\* unresolved symbol id, and none for any other part.
C5_Original ==
    validated => Len(warnings) = Cardinality({j \in 1..Len(AllParts(nodes[1])) : BrokenAsClaimed(AllParts(nodes[1])[j])})

\* C5 as amended: one warning per link-tag part whose target is absent, the
\* empty string or an unresolved symbol id; a part with any other target, a
\* text part and a code part give none, and with no such part nothing is logged.
C5_BrokenParts ==
    validated =>
        /\ Len(warnings) = BrokenIn(AllParts(nodes[1]))
        /\ \A i \in 1..Len(warnings) :
              \E j \in 1..Len(AllParts(nodes[1])) :
                  /\ BrokenAsAmended(AllParts(nodes[1])[j])
                  /\ IsTrimOf(warnings[i].text, AllParts(nodes[1])[j].text)

\* A link resolved to a reflection beside one with an unresolved symbol id:
\* one warning.
C5_Witness ==
    /\ validated
    /\ Len(warnings) = 1
    /\ Len(AllParts(nodes[1])) = 2
    /\ AllParts(nodes[1])[1].kind = "inline-tag"
    /\ AllParts(nodes[1])[1].target.type = "Reflection"
    /\ AllParts(nodes[1])[2].target.type = "ReflectionSymbolId"
    /\ AllParts(nodes[1])[2].tag = "@linkcode"

SumOf(numbers) ==
    LET RECURSIVE Go(_)
        Go(k) == IF k = 0 THEN 0 ELSE numbers[k] + Go(k - 1)
    IN  Go(Len(numbers))


BrokenInComment(r) ==
    IF r.comment = Absent THEN 0
    ELSE BrokenIn(r.comment[1].summary) + SumOf(Map(r.comment[1].blockTags, LAMBDA t : BrokenIn(t.content)))

\* C6: broken readme links of a Project or Declaration give readme warnings,
\* broken content links of a Document give document warnings, broken comment
\* links give comment warnings; no other reflection gives readme or document
\* warnings, and every warning is of one of the three variants, which share
\* no template.
C6_SourceAttribution ==
    /\ ReadmeTemplates \cap DocumentTemplates = {}
    /\ ReadmeTemplates \cap CommentTemplates = {}
    /\ DocumentTemplates \cap CommentTemplates = {}
    /\ validated =>
          \A id \in DOMAIN nodes :
              LET r == nodes[id]
              IN  /\ WarningsFor(r, ReadmeTemplates) =
                        (IF r.variant \in {"Project", "Declaration"} THEN BrokenIn(r.readme) ELSE 0)
                  /\ WarningsFor(r, DocumentTemplates) =
                        (IF r.variant = "Document" THEN BrokenIn(r.content) ELSE 0)
                  /\ WarningsFor(r, CommentTemplates) >= BrokenInComment(r)
                  /\ WarningsFor(r, SeenTemplates) = WarningsFor(r, UsedTemplates)

\* The same link text in a Document's content and in a Declaration's comment:
\* a document warning for the one, a comment warning for the other.
C6_Witness ==
    /\ validated
    /\ nodes[1].variant = "Document"
    /\ nodes[1].content # <<>>
    /\ nodes[1].comment = Absent
    /\ nodes[2].variant = "Declaration"
    /\ nodes[2].comment # Absent
    /\ \E i, j \in 1..Len(warnings) :
          /\ warnings[i].name = nodes[1].name
          /\ warnings[i].template \in DocumentTemplates
          /\ warnings[j].name = nodes[2].name
          /\ warnings[j].template \in CommentTemplates
          /\ warnings[i].text = warnings[j].text

\* A TypeAlias declaration with a union type that has member summaries.
HasUnionSummaries(r) ==
    /\ r.variant = "Declaration"
    /\ r.kind = "TypeAlias"
    /\ r.type # Absent
    /\ r.type[1].type = "union"
    /\ r.type[1].elementSummaries # Absent

BrokenInUnionSummaries(r) ==
    IF HasUnionSummaries(r) THEN SumOf(Map(r.type[1].elementSummaries[1], BrokenIn)) ELSE 0

\* C7 as claimed: a broken link in a union member summary is reported with a
\* template that is none of the comment templates.
C7_Original ==
    validated =>
        \A id \in DOMAIN nodes :
            /\ WarningsFor(nodes[id], CommentTemplates) = BrokenInComment(nodes[id])
            /\ WarningsFor(nodes[id], SeenTemplates \ UsedTemplates)
                  = BrokenInUnionSummaries(nodes[id])

\* C7 as amended: readme, document content and comment have a pair of templates
\* each, six in all, and a broken link in a union member summary is reported
\* with the comment pair.
C7_SixTemplates ==
    /\ Cardinality(UsedTemplates) = 6
    /\ validated =>
          /\ \A i \in 1..Len(warnings) : warnings[i].template \in UsedTemplates
          /\ \A id \in DOMAIN nodes :
                WarningsFor(nodes[id], CommentTemplates)
                    = BrokenInComment(nodes[id]) + BrokenInUnionSummaries(nodes[id])

\* A union member summary and the comment of the same type alias each hold a
\* broken link: two comment warnings for it.
C7_Witness ==
    /\ validated
    /\ HasUnionSummaries(nodes[1])
    /\ BrokenInUnionSummaries(nodes[1]) = 1
    /\ BrokenInComment(nodes[1]) = 1
    /\ WarningsFor(nodes[1], CommentTemplates) = 2

(***************************************************************************)
(* Properties of the renderer                                              *)
(***************************************************************************)
PageTrace(page) == <<Triggered(PageEvent_BEGIN, Some(page)), Triggered(PageEvent_END, Some(page))>>

ExpectedTrace ==
    <<Triggered(RendererEvent_BEGIN, Absent)>>
    \o Flatten(Map(pages, PageTrace))
    \o <<Triggered(IndexEvent_PREPARE_INDEX, Absent), Triggered(RendererEvent_END, Absent)>>

\* C10: the listeners are called in the order beginRender, then beginPage and
\* endPage of each planned page in turn, then prepareIndex once, then
\* endRender once; at every moment of the run the calls so far are the start
\* of that order.
C10_EventOrder ==
    /\ Len(trace) <= Len(ExpectedTrace)
    /\ trace = SubSeq(ExpectedTrace, 1, Len(trace))
    /\ renderState = "done" => trace = ExpectedTrace

\* A run with three planned pages has ended.
C10_Witness ==
    /\ renderState = "done"
    /\ Len(pages) = 3
    /\ Len(trace) = 9

====
